---- MODULE Spec2Model ----
(***************************************************************************)
(* TrueNAS iSCSI Cinder driver (cinder/volume/drivers/rmb938/truenas).     *)
(* The driver's lifecycle operations, the REST client they call and the    *)
(* appliance the client talks to, as one state machine.                    *)
(*                                                                         *)
(* Strings are sequences of tokens: "%s/%s" % (a, b) is a \o <<"/">> \o b. *)
(* A Python None is the empty sequence (no identifier is ever empty).      *)
(***************************************************************************)
EXTENDS Integers, Sequences, FiniteSets, TLC

\* ------------------------------------------------------------------ bounds
MaxSize == 2        \* volume sizes requested, in GiB: 1..MaxSize
MaxId == 2          \* the appliance assigns target/extent ids 1..MaxId

\* ----------------------------------------------------------- the framework
VolIds == {"v1", "v2"}
SnapIds == {"s1"}
\* the scenario: v1 is created, snapshotted and exported; v2 is cloned from the snapshot
CreatedVolIds == {"v1"}
ClonedVolIds == {"v2"}

None == <<>>

\* volume.name_id: the id, unless the volume was migrated (then _name_id)
\* (the created and exported volume is the migrated one)
NameId(v) == IF v = "v1" THEN "n1" ELSE v

\* snapshot.volume: the parent volume of a snapshot
SnapVolume(s) == "v1"

\* snapshot.name: the framework's snapshot_name_template applied to the id
SnapshotName(s) == <<"snapshot-", s>>

\* self.configuration.truenas_dataset_path
TruenasDatasetPath == <<"tank", "/", "cinder">>

\* "%s/%s" % (truenas_dataset_path, volume.name_id)
TruenasVolumeId(v) == TruenasDatasetPath \o <<"/", NameId(v)>>

\* faulty variant: the snapshot id composed from the snapshot's own id alone
TruenasSnapshotId_Bare(parent_provider_id, s) == <<s>>

\* "%s@%s" % (snapshot.volume.provider_id, snapshot.id)
TruenasSnapshotId(parent_provider_id, s) == parent_provider_id \o <<"@", s>>

\* ------------------------------------------------------------ dict helpers
EmptyDict == [k \in {} |-> None]

\* {**d, k: v}
DictSet(d, k, v) == (k :> v) @@ d

\* -------------------------------------------------------- decimal strings
Digits == <<"0", "1", "2", "3", "4", "5", "6", "7", "8", "9">>

RECURSIVE IntToStr(_)
\* f"{n}" for a non-negative int: its decimal digits
IntToStr(n) ==
    IF n < 10 THEN <<Digits[n + 1]>>
    ELSE IntToStr(n \div 10) \o <<Digits[(n % 10) + 1]>>

DigitValue(c) == CHOOSE i \in 0..9 : Digits[i + 1] = c

RECURSIVE StrToIntAcc(_, _)
StrToIntAcc(s, acc) ==
    IF s = <<>> THEN acc
    ELSE StrToIntAcc(Tail(s), acc * 10 + DigitValue(Head(s)))

\* the appliance reading the id out of the request path "iscsi/target/id/<id>"
StrToInt(s) == StrToIntAcc(s, 0)

\* ------------------------------------------------- sizes: GiB to bytes
\* Byte counts exceed 2^31, so a byte count is a little-endian sequence of
\* limbs in base 2^16.
LimbBase == 256 * 256

RECURSIVE MulSmallCarry(_, _, _)
MulSmallCarry(limbs, k, carry) ==
    IF limbs = <<>>
    THEN IF carry = 0 THEN <<>> ELSE <<carry % LimbBase>> \o MulSmallCarry(<<>>, k, carry \div LimbBase)
    ELSE LET p == Head(limbs) * k + carry
         IN  <<p % LimbBase>> \o MulSmallCarry(Tail(limbs), k, p \div LimbBase)

\* limbs * k for a small k
MulSmall(limbs, k) == MulSmallCarry(limbs, k, 0)

\* faulty variant: gigabytes of 1000 * 1000 * 1000 bytes
GiBToBytes_Decimal(size) == MulSmall(MulSmall(MulSmall(<<size>>, 1000), 1000), 1000)

\* size * 1024 * 1024 * 1024
GiBToBytes(size) == MulSmall(MulSmall(MulSmall(<<size>>, 1024), 1024), 1024)

\* ------------------------------------------------------- error responses
\* A message is a sequence of words; `pat in message` is a contiguous match.
Contains(pat, msg) ==
    \E i \in 0..(Len(msg) - Len(pat)) : SubSeq(msg, i + 1, i + Len(pat)) = pat

PatNotFound == <<"not", "found">>
PatDoesNotExist == <<"does", "not", "exist">>
PatDependentClones == <<"snapshot", "has", "dependent", "clones">>

MsgSnapshotNotFound == <<"snapshot">> \o PatNotFound
MsgDoesNotExist == <<"object">> \o PatDoesNotExist
MsgDependentClones == <<"destroy", "failed">> \o PatDependentClones
MsgDenied == <<"permission", "denied">>
MsgBusyNotFound == PatDependentClones \o <<"origin">> \o PatNotFound

Messages == {MsgSnapshotNotFound, MsgDoesNotExist, MsgDependentClones, MsgDenied,
             MsgBusyNotFound}

\* response bodies: text that is no JSON, or a JSON object (a function on its keys)
TextBody == [json |-> FALSE, obj |-> EmptyDict]
JsonBody(o) == [json |-> TRUE, obj |-> o]
MessageBody(m) == JsonBody([message |-> m])
NullBody(list) == JsonBody([null |-> list])

Response(status, body) == [status |-> status, body |-> body]

OkResponse == Response(200, JsonBody(EmptyDict))
IdResponse(id) == Response(200, JsonBody([id |-> id]))
AbsentResponse == Response(404, TextBody)

\* what the appliance may answer when it refuses to delete a dataset, a target or an extent
ObjectErrorResponses ==
    {Response(422, b) : b \in {TextBody, JsonBody(EmptyDict), NullBody(<<>>),
                                NullBody(<<EmptyDict>>), MessageBody(MsgDependentClones),
                                MessageBody(MsgDoesNotExist)}}
    \cup {Response(422, NullBody(<<[message |-> m]>>)) :
             m \in {MsgDoesNotExist, MsgDependentClones, MsgDenied}}
    \cup {Response(500, b) : b \in {TextBody, NullBody(<<[message |-> MsgDoesNotExist]>>)}}

\* what the appliance may answer when it refuses to delete a snapshot
SnapshotErrorResponses ==
    {Response(422, b) : b \in {TextBody, JsonBody(EmptyDict),
                                NullBody(<<[message |-> MsgDoesNotExist]>>)}}
    \cup {Response(422, MessageBody(m)) : m \in Messages}
    \cup {Response(500, b) : b \in {TextBody, MessageBody(MsgDependentClones),
                                     MessageBody(MsgSnapshotNotFound)}}

\* what the appliance may answer when it refuses a create, resize or read call
\* (the driver does not look into these)
RefusalResponses == {Response(422, MessageBody(MsgDenied)), Response(500, TextBody)}

\* the appliance's answer to a delete of a dataset, target or extent that is not there
NoSuchObjectResponse == Response(422, NullBody(<<[message |-> MsgDoesNotExist]>>))
\* the appliance's answer to a delete of a snapshot that is not there
NoSuchSnapshotResponse == Response(422, MessageBody(MsgSnapshotNotFound))
\* the appliance's answer to a delete of a snapshot that has clones
SnapshotBusyResponse == Response(422, MessageBody(MsgDependentClones))

\* ------------------------------------------------------------- outcomes
\* how a driver method ends: it returns, or it raises
Returned == [kind |-> "return", exc |-> "", response |-> OkResponse, name |-> None]
Raise(exc) == [kind |-> "raise", exc |-> exc, response |-> OkResponse, name |-> None]
\* requests.exceptions.HTTPError carrying the response (raise e)
RaiseHTTPError(resp) == [kind |-> "raise", exc |-> "HTTPError", response |-> resp, name |-> None]
\* SnapshotIsBusy(snapshot_name=...)
RaiseSnapshotIsBusy(name) ==
    [kind |-> "raise", exc |-> "SnapshotIsBusy", response |-> OkResponse, name |-> name]

\* resp.status_code != 200 ... resp.raise_for_status(): 4xx and 5xx raise
ClientRaises(resp) == resp.status /= 200 /\ resp.status >= 400 /\ resp.status < 600

\* --------------------------------------------------- the except blocks
\* faulty variant: delete_volume re-raising every HTTPError
DeleteVolumeExcept_Reraise(resp) == RaiseHTTPError(resp)

\* faulty variant: delete_volume classifying with delete_snapshot's patterns
DeleteVolumeExcept_SnapshotPatterns(resp) ==
    IF resp.status = 422 /\ resp.body.json
    THEN LET o == resp.body.obj
             m == IF "message" \in DOMAIN o THEN o.message
                  ELSE IF "null" \in DOMAIN o /\ Len(o.null) > 0
                          /\ "message" \in DOMAIN o.null[1]
                  THEN o.null[1].message ELSE <<>>
         IN  IF Contains(PatNotFound, m) THEN Returned
             ELSE IF Contains(PatDependentClones, m) THEN RaiseSnapshotIsBusy(None)
             ELSE RaiseHTTPError(resp)
    ELSE RaiseHTTPError(resp)

\* delete_volume: except requests.exceptions.HTTPError as e
DeleteVolumeExcept(resp) ==
    IF resp.status = 422
    THEN IF ~resp.body.json
         THEN RaiseHTTPError(resp)                     \* except json.JSONDecodeError: raise e
         ELSE LET response_data == resp.body.obj
              IN  IF "null" \in DOMAIN response_data
                  THEN IF Len(response_data.null) = 0
                       THEN Raise("IndexError")        \* response_data['null'][0]
                       ELSE IF "message" \notin DOMAIN response_data.null[1]
                       THEN Raise("KeyError")          \* ...['message']
                       ELSE IF Contains(PatDoesNotExist, response_data.null[1].message)
                       THEN Returned
                       ELSE RaiseHTTPError(resp)
                  ELSE RaiseHTTPError(resp)
    ELSE RaiseHTTPError(resp)

\* faulty variant: __remove_iscsi_target re-raising every HTTPError
RemoveIscsiTargetExcept_Reraise(resp) == RaiseHTTPError(resp)

\* __remove_iscsi_target: except requests.exceptions.HTTPError as e
RemoveIscsiTargetExcept(resp) ==
    IF resp.status = 422
    THEN IF ~resp.body.json
         THEN RaiseHTTPError(resp)
         ELSE LET response_data == resp.body.obj
              IN  IF "null" \in DOMAIN response_data
                  THEN IF Len(response_data.null) = 0
                       THEN Raise("IndexError")
                       ELSE IF "message" \notin DOMAIN response_data.null[1]
                       THEN Raise("KeyError")
                       ELSE IF Contains(PatDoesNotExist, response_data.null[1].message)
                       THEN Returned
                       ELSE RaiseHTTPError(resp)
                  ELSE RaiseHTTPError(resp)
    ELSE RaiseHTTPError(resp)

\* __remove_iscsi_extent: except requests.exceptions.HTTPError as e
RemoveIscsiExtentExcept(resp) ==
    IF resp.status = 422
    THEN IF ~resp.body.json
         THEN RaiseHTTPError(resp)
         ELSE LET response_data == resp.body.obj
              IN  IF "null" \in DOMAIN response_data
                  THEN IF Len(response_data.null) = 0
                       THEN Raise("IndexError")
                       ELSE IF "message" \notin DOMAIN response_data.null[1]
                       THEN Raise("KeyError")
                       ELSE IF Contains(PatDoesNotExist, response_data.null[1].message)
                       THEN Returned
                       ELSE RaiseHTTPError(resp)
                  ELSE RaiseHTTPError(resp)
    ELSE RaiseHTTPError(resp)

\* faulty variant: delete_snapshot without the dependent-clones branch
DeleteSnapshotExcept_NoBusy(resp, s) ==
    IF resp.status = 422 /\ resp.body.json /\ "message" \in DOMAIN resp.body.obj
       /\ Contains(PatNotFound, resp.body.obj.message)
    THEN Returned
    ELSE RaiseHTTPError(resp)

\* delete_snapshot: except requests.exceptions.HTTPError as e
DeleteSnapshotExcept(resp, s) ==
    IF resp.status = 422
    THEN IF ~resp.body.json
         THEN RaiseHTTPError(resp)                     \* except json.JSONDecodeError: raise e
         ELSE IF "message" \notin DOMAIN resp.body.obj
         THEN Raise("KeyError")                        \* e.response.json()['message']
         ELSE IF Contains(PatNotFound, resp.body.obj.message)
         THEN Returned
         ELSE IF Contains(PatDependentClones, resp.body.obj.message)
         THEN RaiseSnapshotIsBusy(SnapshotName(s))
         ELSE RaiseHTTPError(resp)
    ELSE RaiseHTTPError(resp)

\* ---------------------------------------------------------------- state
VARIABLES
    vol,            \* the framework's Volume records: provider_id, admin_metadata, size
    snap,           \* the framework's Snapshot records: provider_id, admin_metadata, volume_size
    datasets,       \* appliance: dataset id -> origin snapshot (None for a plain zvol)
    fresh,          \* appliance: cloned datasets that get_dataset does not show yet
    rsnapshots,     \* appliance: snapshot ids
    targets,        \* appliance: iSCSI target id -> name
    extents,        \* appliance: iSCSI extent id -> [name, disk]
    targetextents,  \* appliance: <<target id, extent id>> associations
    target_seq,     \* appliance: the last target id assigned
    extent_seq,     \* appliance: the last extent id assigned
    pc,             \* where create_volume_from_snapshot stands: idle, poll, extend
    cur,            \* the running create_volume_from_snapshot: volume, snapshot,
                    \* model_update, and the parity of the while loop's iterations
    calls,          \* the client calls of the current (or last) driver method, in order
    last,           \* the current (or last) driver method: op, arg, input, outcome
    ret             \* the model_update returned and not yet saved by the framework

remote == <<datasets, fresh, rsnapshots, targets, extents, targetextents, target_seq, extent_seq>>
records == <<vol, snap>>
vars == <<vol, snap, datasets, fresh, rsnapshots, targets, extents, targetextents,
          target_seq, extent_seq, pc, cur, calls, last, ret>>

NoRet == [target |-> "none", id |-> "", update |-> EmptyDict]
NoCur == [volume |-> "", snapshot |-> "", model_update |-> EmptyDict, polls |-> 0]
Running == [kind |-> "running", exc |-> "", response |-> OkResponse, name |-> None]

Call(name, args, resp) == [call |-> name, args |-> args, resp |-> resp]

\* the metadata a record may carry when the driver first sees it
InitialMetadata ==
    {EmptyDict,
     [truenas_iscsi_extent_id |-> IntToStr(1)],
     [truenas_iscsi_target_id |-> IntToStr(1)]}

\* the sizes asked for, in GiB: of the created volume (its snapshot records the same
\* size) and of the clone, which the framework does not let be smaller than the
\* snapshot: the clone is asked at the largest size, the created volume at any
Sizes == (1..MaxSize) \X {MaxSize}

Init ==
    /\ \E m \in InitialMetadata, z \in Sizes :
           /\ vol = [v \in VolIds |->
                       [provider_id |-> None,
                        admin_metadata |-> IF v = "v1" THEN m ELSE EmptyDict,
                        size |-> IF v = "v1" THEN z[1] ELSE z[2]]]
           /\ snap = [s \in SnapIds |->
                        [provider_id |-> None, admin_metadata |-> EmptyDict,
                         volume_size |-> z[1]]]
    /\ datasets = EmptyDict
    /\ fresh = {}
    /\ rsnapshots = {}
    /\ targets = EmptyDict
    /\ extents = EmptyDict
    /\ targetextents = {}
    /\ target_seq = 0
    /\ extent_seq = 1      \* the appliance has handed out an extent id before
    /\ pc = "idle"
    /\ cur = NoCur
    /\ calls = <<>>
    /\ last = [op |-> "none", arg |-> "", input |-> None, outcome |-> Returned]
    /\ ret = NoRet

\* a driver method is entered only when none is running and the last
\* model_update has been saved
Idle == pc = "idle" /\ ret = NoRet

\* the method `op` ends with `outcome`, having made the client calls `log`
Finish(op, arg, input, log, outcome, r) ==
    /\ last' = [op |-> op, arg |-> arg, input |-> input, outcome |-> outcome]
    /\ calls' = log
    /\ ret' = r
    /\ pc' = "idle"
    /\ cur' = NoCur

\* what a client method that raises on a non-200 answer does with `resp`
ClientOutcome(resp) == IF ClientRaises(resp) THEN RaiseHTTPError(resp) ELSE Returned

Without(f, k) == [x \in DOMAIN f \ {k} |-> f[x]]

\* ------------------------------------------------------- the appliance
\* DELETE pool/dataset/id/<id>
DeleteDatasetResponses(id) ==
    IF id \in DOMAIN datasets
    THEN (IF \E sn \in rsnapshots : \E k \in 1..Len(sn) : SubSeq(sn, 1, k) = id /\ sn[k + 1] = "@"
          THEN {} ELSE {OkResponse}) \cup ObjectErrorResponses
    ELSE {NoSuchObjectResponse} \cup ObjectErrorResponses

\* DELETE zfs/snapshot/id/<id>
DeleteSnapshotResponses(id) ==
    IF id \in rsnapshots
    THEN IF \E d \in DOMAIN datasets : datasets[d] = id
         THEN {SnapshotBusyResponse} \cup SnapshotErrorResponses
         ELSE {OkResponse} \cup SnapshotErrorResponses
    ELSE {NoSuchSnapshotResponse} \cup SnapshotErrorResponses

\* POST pool/dataset
CreateZvolResponses(name) ==
    (IF name \in DOMAIN datasets THEN {} ELSE {OkResponse}) \cup RefusalResponses

\* POST zfs/snapshot
CreateSnapshotResponses(name, dataset) ==
    (IF dataset \in DOMAIN datasets /\ TruenasSnapshotId(dataset, name) \notin rsnapshots
     THEN {OkResponse} ELSE {}) \cup RefusalResponses

\* --------------------------------------------------------- the driver
\* faulty variant: delete_volume without the provider_id check
DeleteVolumeSkips_Never(volume) == FALSE

\* if volume.provider_id is None: ... return
DeleteVolumeSkips(volume) == volume.provider_id = None

\* if snapshot.provider_id is None: ... return
DeleteSnapshotSkips(snapshot) == snapshot.provider_id = None

delete_volume(v) ==
    /\ Idle
    /\ IF DeleteVolumeSkips(vol[v])
       THEN /\ Finish("delete_volume", v, None, <<>>, Returned, NoRet)
            /\ UNCHANGED <<remote, records>>
       ELSE \E resp \in DeleteDatasetResponses(vol[v].provider_id) :
              /\ datasets' = IF resp.status = 200
                             THEN Without(datasets, vol[v].provider_id) ELSE datasets
              /\ fresh' = IF resp.status = 200 THEN fresh \ {vol[v].provider_id} ELSE fresh
              /\ Finish("delete_volume", v, None,
                        <<Call("delete_dataset", <<vol[v].provider_id>>, resp)>>,
                        IF ClientRaises(resp) THEN DeleteVolumeExcept(resp) ELSE Returned,
                        NoRet)
              /\ UNCHANGED <<records, rsnapshots, targets, extents, targetextents,
                             target_seq, extent_seq>>

delete_snapshot(s) ==
    /\ Idle
    /\ IF DeleteSnapshotSkips(snap[s])
       THEN /\ Finish("delete_snapshot", s, None, <<>>, Returned, NoRet)
            /\ UNCHANGED <<remote, records>>
       ELSE \E resp \in DeleteSnapshotResponses(snap[s].provider_id) :
              /\ rsnapshots' = IF resp.status = 200
                               THEN rsnapshots \ {snap[s].provider_id} ELSE rsnapshots
              /\ Finish("delete_snapshot", s, None,
                        <<Call("delete_snapshot", <<snap[s].provider_id>>, resp)>>,
                        IF ClientRaises(resp) THEN DeleteSnapshotExcept(resp, s) ELSE Returned,
                        NoRet)
              /\ UNCHANGED <<records, datasets, fresh, targets, extents, targetextents,
                             target_seq, extent_seq>>

\* volume.volume_type and its 'provisioning:type' extra spec, as create_volume reads them:
\* no volume type, a type without the spec, or a type with the spec's value (a string,
\* which may be the empty string)
NoVolumeType == <<"no-type">>
NoExtraSpec == <<"no-spec">>
EmptyString == <<"">>
VolumeTypes == {NoVolumeType, NoExtraSpec, EmptyString, <<"thin">>, <<"thick">>, <<"eager">>}

\* faulty variant: every provisioning type taken for thick
Sparse_AlwaysThick(volume_type) == [raises |-> FALSE, sparse |-> FALSE]

\* `if provisioning_type:` is Python truthiness: the missing spec and '' are falsy
Truthy(provisioning_type) == provisioning_type \notin {NoExtraSpec, EmptyString}

\* create_volume's choice of sparse, or the raise for an unknown provisioning type
Sparse(volume_type) ==
    IF volume_type = NoVolumeType THEN [raises |-> FALSE, sparse |-> FALSE]
    ELSE IF ~Truthy(volume_type) THEN [raises |-> FALSE, sparse |-> FALSE]
    ELSE IF volume_type = <<"thin">> THEN [raises |-> FALSE, sparse |-> TRUE]
    ELSE IF volume_type = <<"thick">> THEN [raises |-> FALSE, sparse |-> FALSE]
    ELSE [raises |-> TRUE, sparse |-> FALSE]

\* model_update['admin_metadata'] of create_volume
CreateVolumeMetadata(admin_metadata, truenas_volume_id) ==
    IF DOMAIN admin_metadata = {}
    THEN [truenas_volume_id |-> truenas_volume_id]
    ELSE DictSet(admin_metadata, "truenas_volume_id", truenas_volume_id)

create_volume(v, volume_type) ==
    /\ Idle
    /\ LET truenas_volume_id == TruenasVolumeId(v)
           choice == Sparse(volume_type)
       IN  IF choice.raises
           THEN /\ Finish("create_volume", v, volume_type, <<>>,
                          Raise("VolumeDriverException"), NoRet)
                /\ UNCHANGED <<remote, records>>
           ELSE \E resp \in CreateZvolResponses(truenas_volume_id) :
                  /\ datasets' = IF resp.status = 200
                                 THEN (truenas_volume_id :> None) @@ datasets ELSE datasets
                  /\ Finish("create_volume", v, volume_type,
                            <<Call("create_zvol",
                                   <<truenas_volume_id, GiBToBytes(vol[v].size), choice.sparse>>,
                                   resp)>>,
                            ClientOutcome(resp),
                            IF ClientRaises(resp) THEN NoRet
                            ELSE [target |-> "volume", id |-> v,
                                  update |-> [provider_id |-> truenas_volume_id,
                                              admin_metadata |->
                                                  CreateVolumeMetadata(vol[v].admin_metadata,
                                                                       truenas_volume_id)]])
                  /\ UNCHANGED <<records, fresh, rsnapshots, targets, extents, targetextents,
                                 target_seq, extent_seq>>

\* model_update['admin_metadata'] of create_snapshot
CreateSnapshotMetadata(admin_metadata, truenas_snapshot_id) ==
    IF DOMAIN admin_metadata = {}
    THEN [truenas_snapshot_id |-> truenas_snapshot_id]
    ELSE DictSet(admin_metadata, "truenas_snapshot_id", truenas_snapshot_id)

create_snapshot(s) ==
    /\ Idle
    /\ LET parent == vol[SnapVolume(s)]
       IN  IF parent.provider_id = None
           THEN /\ Finish("create_snapshot", s, None, <<>>,
                          Raise("VolumeDriverException"), NoRet)
                /\ UNCHANGED <<remote, records>>
           ELSE LET truenas_snapshot_id == TruenasSnapshotId(parent.provider_id, s)
                IN  \E resp \in CreateSnapshotResponses(s, parent.provider_id) :
                      /\ rsnapshots' = IF resp.status = 200
                                       THEN rsnapshots \cup {TruenasSnapshotId(parent.provider_id, s)}
                                       ELSE rsnapshots
                      /\ Finish("create_snapshot", s, None,
                                <<Call("create_snapshot", <<s, parent.provider_id>>, resp)>>,
                                ClientOutcome(resp),
                                IF ClientRaises(resp) THEN NoRet
                                ELSE [target |-> "snapshot", id |-> s,
                                      update |-> [provider_id |-> truenas_snapshot_id,
                                                  admin_metadata |->
                                                      CreateSnapshotMetadata(snap[s].admin_metadata,
                                                                             truenas_snapshot_id)]])
                      /\ UNCHANGED <<records, datasets, fresh, targets, extents, targetextents,
                                     target_seq, extent_seq>>

\* ------------------------------------------------- the appliance: iSCSI
\* POST iscsi/target: names are unique, the id is the next of the sequence
CreateIscsiTargetResponses(name) ==
    (IF (\A i \in DOMAIN targets : targets[i] /= name) /\ target_seq < MaxId
     THEN {IdResponse(target_seq + 1)} ELSE {}) \cup RefusalResponses

\* POST iscsi/extent, with the extent table `exts` and its sequence `seq`
CreateIscsiDiskExtentResponses(name, exts, seq) ==
    (IF (\A i \in DOMAIN exts : exts[i].name /= name) /\ seq < MaxId + 1
     THEN {IdResponse(seq + 1)} ELSE {}) \cup RefusalResponses

\* POST iscsi/targetextent
CreateIscsiTargetextentResponses == {OkResponse} \cup RefusalResponses

\* DELETE iscsi/target/id/<target_id>
DeleteIscsiTargetResponses(target_id) ==
    IF target_id /= None /\ StrToInt(target_id) \in DOMAIN targets
    THEN {OkResponse} \cup ObjectErrorResponses
    ELSE {NoSuchObjectResponse} \cup ObjectErrorResponses

\* DELETE iscsi/extent/id/<extent_id>
DeleteIscsiExtentResponses(extent_id) ==
    IF extent_id /= None /\ StrToInt(extent_id) \in DOMAIN extents
    THEN {OkResponse} \cup ObjectErrorResponses
    ELSE {NoSuchObjectResponse} \cup ObjectErrorResponses

\* ---------------------------------------------------- the driver: export
\* ISCSITarget(id=output_data['id']), ISCSIExtent(id=output_data['id'])
CreatedId(resp) == resp.body.obj.id

\* faulty variant: the association called with the two ids swapped
TargetextentArgs_Swapped(iscsi_target_id, iscsi_disk_extent_id) ==
    <<iscsi_disk_extent_id, iscsi_target_id>>

\* create_iscsi_targetextent(target_id=iscsi_target.id, extent_id=iscsi_disk_extent.id)
TargetextentArgs(iscsi_target_id, iscsi_disk_extent_id) ==
    <<iscsi_target_id, iscsi_disk_extent_id>>

\* faulty variant: create_export returning the two export ids alone
CreateExportMetadata_Fresh(admin_metadata, iscsi_target_id, iscsi_disk_extent_id) ==
    [truenas_iscsi_target_id |-> IntToStr(iscsi_target_id),
     truenas_iscsi_extent_id |-> IntToStr(iscsi_disk_extent_id)]

\* model_update['admin_metadata'] of create_export
CreateExportMetadata(admin_metadata, iscsi_target_id, iscsi_disk_extent_id) ==
    DictSet(DictSet(admin_metadata, "truenas_iscsi_target_id", IntToStr(iscsi_target_id)),
            "truenas_iscsi_extent_id", IntToStr(iscsi_disk_extent_id))

\* faulty variant: create_export deleting its target again when the extent create fails
create_export_Rollback(v) ==
    /\ Idle
    /\ vol[v].provider_id /= None
    /\ \E r1 \in CreateIscsiTargetResponses(NameId(v)), r2 \in RefusalResponses :
          /\ ~ClientRaises(r1)
          /\ target_seq' = CreatedId(r1)
          /\ Finish("create_export", v, None,
                    <<Call("create_iscsi_target", <<NameId(v), 1>>, r1),
                      Call("create_iscsi_disk_extent", <<NameId(v), 512, vol[v].provider_id>>, r2),
                      Call("delete_iscsi_target", <<IntToStr(CreatedId(r1))>>, OkResponse)>>,
                    RaiseHTTPError(r2), NoRet)
          /\ UNCHANGED <<records, datasets, fresh, rsnapshots, targets, extents,
                         targetextents, extent_seq>>

create_export(v) ==
    /\ Idle
    /\ IF vol[v].provider_id = None
       THEN /\ Finish("create_export", v, None, <<>>, Raise("VolumeDriverException"), NoRet)
            /\ UNCHANGED <<remote, records>>
       ELSE \E r1 \in CreateIscsiTargetResponses(NameId(v)) :
            LET c1 == Call("create_iscsi_target", <<NameId(v), 1>>, r1)
            IN  IF ClientRaises(r1)
                THEN /\ Finish("create_export", v, None, <<c1>>, RaiseHTTPError(r1), NoRet)
                     /\ UNCHANGED <<remote, records>>
                ELSE
                /\ targets' = (CreatedId(r1) :> NameId(v)) @@ targets
                /\ target_seq' = CreatedId(r1)
                /\ \E r2 \in CreateIscsiDiskExtentResponses(NameId(v), extents, extent_seq) :
                   LET c2 == Call("create_iscsi_disk_extent",
                                  <<NameId(v), 512, vol[v].provider_id>>, r2)
                   IN  IF ClientRaises(r2)
                       THEN /\ Finish("create_export", v, None, <<c1, c2>>,
                                      RaiseHTTPError(r2), NoRet)
                            /\ UNCHANGED <<records, datasets, fresh, rsnapshots, extents,
                                           targetextents, extent_seq>>
                       ELSE
                       /\ extents' = (CreatedId(r2) :>
                                        [name |-> NameId(v),
                                         disk |-> <<"zvol", "/">> \o vol[v].provider_id])
                                     @@ extents
                       /\ extent_seq' = CreatedId(r2)
                       /\ \E r3 \in CreateIscsiTargetextentResponses :
                          LET c3 == Call("create_iscsi_targetextent",
                                         TargetextentArgs(CreatedId(r1), CreatedId(r2)), r3)
                          IN  IF ClientRaises(r3)
                              THEN /\ Finish("create_export", v, None, <<c1, c2, c3>>,
                                             RaiseHTTPError(r3), NoRet)
                                   /\ UNCHANGED <<records, datasets, fresh, rsnapshots,
                                                  targetextents>>
                              ELSE /\ targetextents' = targetextents \cup {c3.args}
                                   /\ Finish("create_export", v, None, <<c1, c2, c3>>,
                                             Returned,
                                             [target |-> "volume", id |-> v,
                                              update |->
                                                [admin_metadata |->
                                                   CreateExportMetadata(vol[v].admin_metadata,
                                                                        CreatedId(r1),
                                                                        CreatedId(r2))]])
                                   /\ UNCHANGED <<records, datasets, fresh, rsnapshots>>

\* faulty variant: remove_export without the check for the target id key
RemoveExportRaises_NoTargetCheck(volume) ==
    \/ volume.provider_id = None
    \/ DOMAIN volume.admin_metadata = {}
    \/ "truenas_iscsi_extent_id" \notin DOMAIN volume.admin_metadata

\* remove_export's checks before it touches the appliance: TRUE when it raises
RemoveExportRaises(volume) ==
    \/ volume.provider_id = None
    \/ DOMAIN volume.admin_metadata = {}
    \/ "truenas_iscsi_target_id" \notin DOMAIN volume.admin_metadata
    \/ "truenas_iscsi_extent_id" \notin DOMAIN volume.admin_metadata

\* __remove_iscsi_target: how it ends on the answer `resp`
RemoveIscsiTarget(resp) == IF ClientRaises(resp) THEN RemoveIscsiTargetExcept(resp) ELSE Returned

\* __remove_iscsi_extent: how it ends on the answer `resp`
RemoveIscsiExtent(resp) == IF ClientRaises(resp) THEN RemoveIscsiExtentExcept(resp) ELSE Returned

\* remove_export goes on to __remove_iscsi_extent once __remove_iscsi_target ended with `o1`
ExtentDeleteAttempted(o1) == o1.kind = "return"

remove_export(v) ==
    /\ Idle
    /\ IF RemoveExportRaises(vol[v])
       THEN /\ Finish("remove_export", v, None, <<>>, Raise("VolumeDriverException"), NoRet)
            /\ UNCHANGED <<remote, records>>
       ELSE IF "truenas_iscsi_target_id" \notin DOMAIN vol[v].admin_metadata
               \/ "truenas_iscsi_extent_id" \notin DOMAIN vol[v].admin_metadata
       THEN /\ Finish("remove_export", v, None, <<>>, Raise("KeyError"), NoRet)
            /\ UNCHANGED <<remote, records>>
       ELSE
       LET truenas_iscsi_target_id == vol[v].admin_metadata.truenas_iscsi_target_id
           truenas_iscsi_extent_id == vol[v].admin_metadata.truenas_iscsi_extent_id
       IN  \E r1 \in DeleteIscsiTargetResponses(truenas_iscsi_target_id) :
           LET c1 == Call("delete_iscsi_target", <<truenas_iscsi_target_id>>, r1)
               o1 == RemoveIscsiTarget(r1)
               tid == StrToInt(truenas_iscsi_target_id)
               eid == StrToInt(truenas_iscsi_extent_id)
               targets1 == IF r1.status = 200 THEN Without(targets, tid) ELSE targets
               links1 == IF r1.status = 200
                         THEN {l \in targetextents : l[1] /= tid} ELSE targetextents
           IN  IF ~ExtentDeleteAttempted(o1)
               THEN /\ targets' = targets1
                    /\ targetextents' = links1
                    /\ Finish("remove_export", v, None, <<c1>>, o1, NoRet)
                    /\ UNCHANGED <<records, datasets, fresh, rsnapshots, extents,
                                   target_seq, extent_seq>>
               ELSE \E r2 \in DeleteIscsiExtentResponses(truenas_iscsi_extent_id) :
                    LET c2 == Call("delete_iscsi_extent", <<truenas_iscsi_extent_id>>, r2)
                        o2 == RemoveIscsiExtent(r2)
                    IN  /\ targets' = targets1
                        /\ extents' = IF r2.status = 200 THEN Without(extents, eid) ELSE extents
                        /\ targetextents' = IF r2.status = 200
                                            THEN {l \in links1 : l[2] /= eid} ELSE links1
                        /\ Finish("remove_export", v, None, <<c1, c2>>,
                                  IF o1.kind = "raise" THEN o1 ELSE o2, NoRet)
                        /\ UNCHANGED <<records, datasets, fresh, rsnapshots,
                                       target_seq, extent_seq>>

\* ------------------------------------------- the appliance: clone, resize, reads
\* POST zfs/snapshot/clone
CloneSnapshotResponses(snapshot_id, dataset_dst) ==
    (IF snapshot_id \in rsnapshots /\ dataset_dst \notin DOMAIN datasets
     THEN {OkResponse} ELSE {}) \cup RefusalResponses

DatasetResponse(id) == Response(200, JsonBody([id |-> id, type |-> "VOLUME"]))

\* GET pool/dataset/id/<id>: a fresh clone may not show yet
GetDatasetResponses(id) ==
    (IF id \in DOMAIN datasets
     THEN {DatasetResponse(id)} \cup (IF id \in fresh THEN {AbsentResponse} ELSE {})
     ELSE {AbsentResponse}) \cup RefusalResponses

\* PUT pool/dataset/id/<id>
ExpandZvolResponses(id) ==
    (IF id \in DOMAIN datasets THEN {OkResponse} ELSE {}) \cup RefusalResponses

BaseName == <<"iqn.2005-10.org.example.ctl">>
GlobalResponse == Response(200, JsonBody([id |-> 1, basename |-> BaseName]))

\* GET iscsi/global
GetIscsiGlobalResponses == {GlobalResponse} \cup RefusalResponses

Listen(ip, port) == [ip |-> ip, port |-> port]
PortalListens == {<<Listen(<<"10.0.0.5">>, 3260)>>,
                  <<Listen(<<"10.0.0.6">>, 3261), Listen(<<"10.0.0.5">>, 3260)>>,
                  <<>>}
PortalResponse(listen) == Response(200, JsonBody([id |-> 1, listen |-> listen]))

\* GET iscsi/portal/id/<portal_id>
GetIscsiPortalResponses ==
    {PortalResponse(l) : l \in PortalListens} \cup {AbsentResponse} \cup RefusalResponses

\* ------------------------------------------- the driver: clone and resize
\* faulty variant: extend_volume without the provider_id check
ExtendVolumeRaises_Never(volume) == FALSE

\* extend_volume's check before it touches the appliance: TRUE when it raises
ExtendVolumeRaises(volume) == volume.provider_id = None

extend_volume(v, new_size) ==
    /\ Idle
    /\ IF ExtendVolumeRaises(vol[v])
       THEN /\ Finish("extend_volume", v, <<new_size>>, <<>>,
                      Raise("VolumeDriverException"), NoRet)
            /\ UNCHANGED <<remote, records>>
       ELSE \E resp \in ExpandZvolResponses(vol[v].provider_id) :
              /\ Finish("extend_volume", v, <<new_size>>,
                        <<Call("expand_zvol", <<vol[v].provider_id, GiBToBytes(new_size)>>, resp)>>,
                        ClientOutcome(resp), NoRet)
              /\ UNCHANGED <<remote, records>>

\* model_update['admin_metadata'] of create_volume_from_snapshot
CloneMetadata(admin_metadata, truenas_volume_id, snapshot_provider_id) ==
    IF DOMAIN admin_metadata = {}
    THEN [truenas_volume_id |-> truenas_volume_id,
          truenas_volume_from_snapshot_id |-> snapshot_provider_id]
    ELSE DictSet(DictSet(admin_metadata, "truenas_volume_id", truenas_volume_id),
                 "truenas_volume_from_snapshot_id", snapshot_provider_id)

\* faulty variant: the clone resized whatever the sizes
NeedsResize_Always(snapshot, volume) == TRUE

\* if snapshot.volume_size != volume.size
NeedsResize(snapshot, volume) == snapshot.volume_size /= volume.size

\* faulty variant: the provider id set on the volume before the clone call is made
create_volume_from_snapshot_SetsFirst(v, s) ==
    /\ Idle
    /\ LET truenas_volume_id == TruenasVolumeId(v)
       IN  \E resp \in RefusalResponses :
             /\ vol' = [vol EXCEPT ![v].provider_id = truenas_volume_id]
             /\ Finish("create_volume_from_snapshot", v, <<s>>,
                       <<Call("clone_snapshot", <<snap[s].provider_id, truenas_volume_id>>,
                              resp)>>,
                       RaiseHTTPError(resp), NoRet)
             /\ UNCHANGED <<remote, snap>>

\* the clone call, the provider id set on the volume, the model_update
create_volume_from_snapshot(v, s) ==
    /\ Idle
    /\ LET truenas_volume_id == TruenasVolumeId(v)
       IN  \E resp \in CloneSnapshotResponses(snap[s].provider_id, truenas_volume_id) :
           LET c == Call("clone_snapshot", <<snap[s].provider_id, truenas_volume_id>>, resp)
               model_update ==
                   [provider_id |-> truenas_volume_id,
                    admin_metadata |-> CloneMetadata(vol[v].admin_metadata, truenas_volume_id,
                                                     snap[s].provider_id)]
           IN  IF ClientRaises(resp)
               THEN /\ Finish("create_volume_from_snapshot", v, <<s>>, <<c>>,
                              RaiseHTTPError(resp), NoRet)
                    /\ UNCHANGED <<remote, records>>
               ELSE /\ datasets' = (truenas_volume_id :> snap[s].provider_id) @@ datasets
                    /\ fresh' = fresh \cup {truenas_volume_id}
                    /\ vol' = [vol EXCEPT ![v].provider_id = truenas_volume_id]
                    /\ IF NeedsResize(snap[s], vol[v])
                       THEN /\ pc' = "poll"
                            /\ cur' = [volume |-> v, snapshot |-> s,
                                       model_update |-> model_update, polls |-> 0]
                            /\ last' = [op |-> "create_volume_from_snapshot", arg |-> v,
                                        input |-> <<s>>, outcome |-> Running]
                            /\ calls' = <<c>>
                            /\ ret' = NoRet
                       ELSE Finish("create_volume_from_snapshot", v, <<s>>, <<c>>, Returned,
                                   [target |-> "volume", id |-> v, update |-> model_update])
                    /\ UNCHANGED <<snap, rsnapshots, targets, extents, targetextents,
                                   target_seq, extent_seq>>

\* TrueNASAPIClient.get_dataset: None on 404, raise on any other non-200, else the Dataset
GetDataset(resp) ==
    IF resp.status = 404 THEN "None"
    ELSE IF resp.status /= 200 THEN "raise"
    ELSE "Dataset"

\* faulty variant: the loop left on the first answer
PollAgain_Never(dataset) == FALSE

\* while dataset is None
PollAgain(dataset) == dataset = "None"

\* the log with one more call; a poll that repeats the last entry is logged once
Logged(log, c) == IF log /= <<>> /\ log[Len(log)] = c THEN log ELSE Append(log, c)

\* while dataset is None: dataset = self.truenas_client.get_dataset(truenas_volume_id)
poll_dataset ==
    /\ pc = "poll"
    /\ LET v == cur.volume
           id == TruenasVolumeId(v)
       IN  \E resp \in GetDatasetResponses(id) :
           LET c == Call("get_dataset", <<id>>, resp)
               dataset == GetDataset(resp)
           IN  IF dataset = "raise"
               THEN /\ Finish("create_volume_from_snapshot", v, <<cur.snapshot>>,
                              Append(calls, c), RaiseHTTPError(resp), NoRet)
                    /\ UNCHANGED <<remote, records>>
               ELSE IF PollAgain(dataset)
               THEN /\ calls' = Logged(calls, c)
                    /\ fresh' = IF resp.status = 200 THEN fresh \ {id} ELSE fresh
                    \* the loop keeps no counter: the parity tells one iteration from the next
                    /\ cur' = [cur EXCEPT !.polls = 1 - @]
                    /\ UNCHANGED <<records, datasets, rsnapshots, targets, extents,
                                   targetextents, target_seq, extent_seq, pc, last, ret>>
               ELSE /\ fresh' = IF resp.status = 200 THEN fresh \ {id} ELSE fresh
                    /\ pc' = "extend"
                    /\ calls' = Append(calls, c)
                    /\ cur' = [cur EXCEPT !.polls = 0]
                    /\ UNCHANGED <<records, datasets, rsnapshots, targets, extents,
                                   targetextents, target_seq, extent_seq, last, ret>>

\* self.extend_volume(volume, volume.size); return model_update
extend_clone ==
    /\ pc = "extend"
    /\ LET v == cur.volume
       IN  IF ExtendVolumeRaises(vol[v])
           THEN /\ Finish("create_volume_from_snapshot", v, <<cur.snapshot>>, calls,
                          Raise("VolumeDriverException"), NoRet)
                /\ UNCHANGED <<remote, records>>
           ELSE \E resp \in ExpandZvolResponses(vol[v].provider_id) :
                  /\ Finish("create_volume_from_snapshot", v, <<cur.snapshot>>,
                            Append(calls, Call("expand_zvol",
                                               <<vol[v].provider_id, GiBToBytes(vol[v].size)>>,
                                               resp)),
                            ClientOutcome(resp),
                            IF ClientRaises(resp) THEN NoRet
                            ELSE [target |-> "volume", id |-> v,
                                  update |-> cur.model_update])
                  /\ UNCHANGED <<remote, records>>

\* ---------------------------------------------- the driver: connections
\* faulty variant: the portal taken from the last listen endpoint
ConnectionData_LastListen(volume_id, volume_name_id, basename, listen) ==
    [target_discovered |-> FALSE,
     target_iqn |-> basename \o <<":", volume_name_id>>,
     target_portal |-> listen[Len(listen)].ip \o <<":">> \o IntToStr(listen[Len(listen)].port),
     volume_id |-> volume_id,
     discard |-> FALSE]

\* faulty variant: the IQN composed from the volume's id
ConnectionData_IqnFromId(volume_id, volume_name_id, basename, listen) ==
    [target_discovered |-> FALSE,
     target_iqn |-> basename \o <<":", volume_id>>,
     target_portal |-> listen[1].ip \o <<":">> \o IntToStr(listen[1].port),
     volume_id |-> volume_id,
     discard |-> FALSE]

\* the 'data' of initialize_connection's return value
ConnectionData(volume_id, volume_name_id, basename, listen) ==
    [target_discovered |-> FALSE,
     target_iqn |-> basename \o <<":", volume_name_id>>,
     target_portal |-> listen[1].ip \o <<":">> \o IntToStr(listen[1].port),
     volume_id |-> volume_id,
     discard |-> FALSE]

initialize_connection(v) ==
    /\ Idle
    /\ UNCHANGED <<remote, records>>
    /\ IF vol[v].provider_id = None
       THEN Finish("initialize_connection", v, None, <<>>,
                   Raise("VolumeDriverException"), NoRet)
       ELSE \E r1 \in GetIscsiGlobalResponses :
            LET c1 == Call("get_iscsi_global", <<>>, r1)
            IN  IF ClientRaises(r1)
                THEN Finish("initialize_connection", v, None, <<c1>>, RaiseHTTPError(r1), NoRet)
                ELSE \E r2 \in GetIscsiPortalResponses :
                     LET c2 == Call("get_iscsi_portal", <<"1">>, r2)
                     IN  IF r2.status = 404
                         THEN Finish("initialize_connection", v, None, <<c1, c2>>,
                                     Raise("VolumeDriverException"), NoRet)
                         ELSE IF r2.status /= 200
                         THEN Finish("initialize_connection", v, None, <<c1, c2>>,
                                     RaiseHTTPError(r2), NoRet)
                         ELSE IF Len(r2.body.obj.listen) = 0
                         THEN Finish("initialize_connection", v, None, <<c1, c2>>,
                                     Raise("IndexError"), NoRet)
                         ELSE Finish("initialize_connection", v, None, <<c1, c2>>, Returned,
                                     [target |-> "connection", id |-> v,
                                      update |-> ConnectionData(v, NameId(v),
                                                                r1.body.obj.basename,
                                                                r2.body.obj.listen)])

\* faulty variant: terminate_connection deleting the volume's target
terminate_connection_DeletesTarget(v) ==
    /\ Idle
    /\ targets' = [i \in {j \in DOMAIN targets : targets[j] /= NameId(v)} |-> targets[i]]
    /\ Finish("terminate_connection", v, None,
              <<Call("delete_iscsi_target", <<NameId(v)>>, OkResponse)>>, Returned, NoRet)
    /\ UNCHANGED <<records, datasets, fresh, rsnapshots, extents, targetextents,
                   target_seq, extent_seq>>

terminate_connection(v) ==
    /\ Idle
    /\ Finish("terminate_connection", v, None, <<>>, Returned, NoRet)
    /\ UNCHANGED <<remote, records>>

\* ------------------------------------------------------ the framework
\* volume.update(model_update); volume.save()
ApplyUpdate(record, update) ==
    [record EXCEPT
        !.provider_id = IF "provider_id" \in DOMAIN update
                        THEN update.provider_id ELSE @,
        !.admin_metadata = IF "admin_metadata" \in DOMAIN update
                           THEN update.admin_metadata ELSE @]

SaveModelUpdate ==
    /\ pc = "idle"
    /\ ret /= NoRet
    /\ vol' = IF ret.target = "volume"
              THEN [vol EXCEPT ![ret.id] = ApplyUpdate(@, ret.update)] ELSE vol
    /\ snap' = IF ret.target = "snapshot"
               THEN [snap EXCEPT ![ret.id] = ApplyUpdate(@, ret.update)] ELSE snap
    /\ ret' = NoRet
    /\ UNCHANGED <<remote, pc, cur, calls, last>>

Next ==
    \/ \E v \in VolIds : delete_volume(v)
    \/ \E s \in SnapIds : delete_snapshot(s)
    \/ \E v \in CreatedVolIds, t \in VolumeTypes : create_volume(v, t)
    \/ \E s \in SnapIds : create_snapshot(s)
    \/ \E v \in CreatedVolIds : create_export(v)
    \/ \E v \in CreatedVolIds : remove_export(v)
    \/ \E v \in VolIds, n \in 1..MaxSize : extend_volume(v, n)
    \/ \E v \in ClonedVolIds, s \in SnapIds : create_volume_from_snapshot(v, s)
    \/ poll_dataset
    \/ extend_clone
    \/ \E v \in VolIds : initialize_connection(v)
    \/ \E v \in VolIds : terminate_connection(v)
    \/ SaveModelUpdate

Spec == Init /\ [][Next]_vars

\* A driver method that was entered runs on: the thread inside
\* create_volume_from_snapshot makes its next get_dataset call and, out of the loop,
\* its extend_volume call. Nothing obliges the framework to call the driver.
FairSpec == Spec /\ WF_vars(poll_dataset) /\ WF_vars(extend_clone)

\* ================================================================ claims
\* the teardown calls of the log
DeleteCalls == {"delete_dataset", "delete_snapshot", "delete_iscsi_target", "delete_iscsi_extent"}

\* the answer says, in the way of dataset, target and extent deletes, that the object is gone
ObjectNotFound(resp) ==
    /\ resp.status = 422
    /\ resp.body.json
    /\ "null" \in DOMAIN resp.body.obj
    /\ Len(resp.body.obj.null) > 0
    /\ "message" \in DOMAIN resp.body.obj.null[1]
    /\ Contains(PatDoesNotExist, resp.body.obj.null[1].message)

\* the answer carries a top-level message containing `pat`
SaysInMessage(resp, pat) ==
    /\ resp.body.json
    /\ "message" \in DOMAIN resp.body.obj
    /\ Contains(pat, resp.body.obj.message)

\* the answer says, in the way of snapshot deletes, that the snapshot is gone
SnapshotNotFound(resp) == resp.status = 422 /\ SaysInMessage(resp, PatNotFound)

\* the answer is the not-found pattern of the call it answers
NotFoundEquivalent(c) ==
    IF c.call = "delete_snapshot" THEN SnapshotNotFound(c.resp) ELSE ObjectNotFound(c.resp)

\* the step is one of the driver method `op`: a method is entered from an idle state
\* and names itself in `last`
Entered(op) == Idle /\ last'.op = op

\* ---- C1: delete_volume of a volume without provider id, and delete_snapshot of a
\* snapshot without provider id, return, make no client call and leave the appliance
\* as it was.
C1_NoProviderIdTeardown ==
    [][ /\ (Entered("delete_volume") /\ vol[last'.arg].provider_id = None)
           => (last'.outcome = Returned /\ calls' = <<>> /\ UNCHANGED remote)
        /\ (Entered("delete_snapshot") /\ snap[last'.arg].provider_id = None)
           => (last'.outcome = Returned /\ calls' = <<>> /\ UNCHANGED remote) ]_vars

\* delete_volume returned for a volume without provider id while the appliance holds a dataset
C1_Witness ==
    /\ last.op = "delete_volume"
    /\ vol[last.arg].provider_id = None
    /\ last.outcome = Returned
    /\ calls = <<>>
    /\ DOMAIN datasets /= {}

\* ---- C2: a teardown call answered with the not-found pattern of its kind is a
\* successful no-op: delete_volume and delete_snapshot return; in remove_export a
\* target delete so answered is followed by the extent delete, and remove_export
\* returns when no other call of it failed.
C2_NotFoundIsSuccess ==
    /\ (last.op \in {"delete_volume", "delete_snapshot"} /\ calls /= <<>>
        /\ NotFoundEquivalent(calls[1]))
       => last.outcome = Returned
    /\ (last.op = "remove_export" /\ calls /= <<>> /\ NotFoundEquivalent(calls[1]))
       => /\ Len(calls) = 2
          /\ calls[2].call = "delete_iscsi_extent"
          /\ (calls[2].resp.status = 200 \/ NotFoundEquivalent(calls[2]))
             => last.outcome = Returned
    /\ (last.op = "remove_export" /\ Len(calls) = 2 /\ NotFoundEquivalent(calls[2]))
       => last.outcome = Returned

\* remove_export returned although neither the target nor the extent was on the appliance
C2_Witness ==
    /\ last.op = "remove_export"
    /\ Len(calls) = 2
    /\ calls[1].resp = NoSuchObjectResponse
    /\ calls[2].resp = NoSuchObjectResponse
    /\ StrToInt(calls[1].args[1]) \notin DOMAIN targets
    /\ StrToInt(calls[2].args[1]) \notin DOMAIN extents
    /\ last.outcome = Returned

\* ---- C3 (as claimed): whenever the snapshot delete fails with a message saying the
\* snapshot has dependent clones, delete_snapshot raises SnapshotIsBusy with the
\* snapshot's name.
C3_BusyWheneverMessageSaysClones ==
    (last.op = "delete_snapshot" /\ calls /= <<>> /\ ClientRaises(calls[1].resp)
     /\ SaysInMessage(calls[1].resp, PatDependentClones))
    => last.outcome = RaiseSnapshotIsBusy(SnapshotName(last.arg))

\* ---- C3 (amended): when the snapshot delete fails with status 422 and a JSON message
\* that contains 'snapshot has dependent clones' and not 'not found', delete_snapshot
\* raises SnapshotIsBusy with the snapshot's name.
C3_BusyOn422 ==
    (last.op = "delete_snapshot" /\ calls /= <<>>
     /\ calls[1].resp.status = 422
     /\ SaysInMessage(calls[1].resp, PatDependentClones)
     /\ ~SaysInMessage(calls[1].resp, PatNotFound))
    => last.outcome = RaiseSnapshotIsBusy(SnapshotName(last.arg))

\* delete_snapshot raised SnapshotIsBusy for a snapshot that has a clone on the appliance
C3_Witness ==
    /\ last.op = "delete_snapshot"
    /\ calls /= <<>>
    /\ calls[1].resp = SnapshotBusyResponse
    /\ \E d \in DOMAIN datasets : datasets[d] = snap[last.arg].provider_id
    /\ last.outcome = RaiseSnapshotIsBusy(SnapshotName(last.arg))

\* ---- C4: a failed delete call whose answer is not the known pattern of its
\* operation (not found; for snapshots also dependent clones) ends the operation with
\* that same HTTPError.
C4_UnknownErrorsPropagateUnchanged ==
    \A i \in 1..Len(calls) :
        (/\ calls[i].call \in DeleteCalls
         /\ ClientRaises(calls[i].resp)
         /\ ~NotFoundEquivalent(calls[i])
         /\ ~(calls[i].call = "delete_snapshot" /\ calls[i].resp.status = 422
              /\ SaysInMessage(calls[i].resp, PatDependentClones)))
        => last.outcome = RaiseHTTPError(calls[i].resp)

\* the metadata the caller holds for the volume of the last method: the returned
\* model_update's, or the record's once it is saved
HeldMetadata ==
    IF ret.target = "volume" /\ "admin_metadata" \in DOMAIN ret.update
    THEN ret.update.admin_metadata
    ELSE vol[last.arg].admin_metadata

\* ---- C5: a create_export that returns made exactly three client calls, target
\* create, extent create, association, in this order; the association carries the ids
\* the first two calls returned; the metadata returned holds both ids.
C5_ExportSequence ==
    (last.op = "create_export" /\ last.outcome = Returned)
    => /\ Len(calls) = 3
       /\ calls[1].call = "create_iscsi_target"
       /\ calls[2].call = "create_iscsi_disk_extent"
       /\ calls[3].call = "create_iscsi_targetextent"
       /\ calls[3].args = <<calls[1].resp.body.obj.id, calls[2].resp.body.obj.id>>
       /\ "truenas_iscsi_target_id" \in DOMAIN HeldMetadata
       /\ "truenas_iscsi_extent_id" \in DOMAIN HeldMetadata
       /\ StrToInt(HeldMetadata.truenas_iscsi_target_id) = calls[1].resp.body.obj.id
       /\ StrToInt(HeldMetadata.truenas_iscsi_extent_id) = calls[2].resp.body.obj.id

\* create_export returned its model_update, with a target id that differs from the extent id
C5_Witness ==
    /\ last.op = "create_export"
    /\ last.outcome = Returned
    /\ ret.target = "volume"
    /\ ret.update.admin_metadata.truenas_iscsi_target_id
         /= ret.update.admin_metadata.truenas_iscsi_extent_id
    /\ <<calls[1].resp.body.obj.id, calls[2].resp.body.obj.id>> \in targetextents

\* what remove_export needs of the volume is missing
PreconditionMissing(volume) ==
    \/ volume.provider_id = None
    \/ volume.admin_metadata = EmptyDict
    \/ "truenas_iscsi_target_id" \notin DOMAIN volume.admin_metadata
    \/ "truenas_iscsi_extent_id" \notin DOMAIN volume.admin_metadata

\* ---- C6: remove_export of a volume without provider id, without metadata, or whose
\* metadata lacks the target id key or the extent id key raises VolumeDriverException,
\* makes no client call and leaves the appliance as it was.
C6_RemoveExportPrecondition ==
    [][ (Entered("remove_export") /\ PreconditionMissing(vol[last'.arg]))
        => (/\ last'.outcome = Raise("VolumeDriverException")
            /\ calls' = <<>>
            /\ UNCHANGED remote) ]_vars

\* remove_export raised for a volume that has an extent id and no target id, with a
\* target on the appliance
C6_Witness ==
    /\ last.op = "remove_export"
    /\ vol[last.arg].provider_id /= None
    /\ "truenas_iscsi_extent_id" \in DOMAIN vol[last.arg].admin_metadata
    /\ "truenas_iscsi_target_id" \notin DOMAIN vol[last.arg].admin_metadata
    /\ last.outcome = Raise("VolumeDriverException")
    /\ calls = <<>>
    /\ DOMAIN targets /= {}

\* ---- C7: in remove_export, when the target delete fails with an error that is not
\* the not-found pattern, the extent delete is still attempted in the same invocation.
C7_ExtentDeleteStillAttempted ==
    (last.op = "remove_export" /\ calls /= <<>>
     /\ ClientRaises(calls[1].resp) /\ ~NotFoundEquivalent(calls[1]))
    => (Len(calls) = 2 /\ calls[2].call = "delete_iscsi_extent")

\* ---- C8: when create_export fails at the extent create or at the association, the
\* ids of the target (and of the extent, once created) are in the metadata the caller
\* holds, so that remove_export can reach them.
C8_FailedExportIdsKept ==
    (last.op = "create_export" /\ last.outcome.kind = "raise" /\ Len(calls) >= 2)
    => /\ "truenas_iscsi_target_id" \in DOMAIN HeldMetadata
       /\ HeldMetadata.truenas_iscsi_target_id = IntToStr(calls[1].resp.body.obj.id)
       /\ Len(calls) = 3
          => /\ "truenas_iscsi_extent_id" \in DOMAIN HeldMetadata
             /\ HeldMetadata.truenas_iscsi_extent_id = IntToStr(calls[2].resp.body.obj.id)

\* n * 1073741824 as limbs: 2^30 = 16384 * 2^16, so the low limb is 0 and the rest is
\* 16384 * n in base 2^16
Bytes(n) ==
    IF 16384 * n < LimbBase THEN <<0, 16384 * n>>
    ELSE <<0, (16384 * n) % LimbBase, (16384 * n) \div LimbBase>>

\* the positions of the log that hold a call of the client method `name`
CallsOf(name) == {i \in 1..Len(calls) : calls[i].call = name}

\* the snapshot's recorded size differs from the size asked for the clone
SizesDiffer == snap[last.input[1]].volume_size /= vol[last.arg].size

\* ---- C9: create_volume_from_snapshot makes at most one resize call; it makes none
\* when the snapshot's size equals the volume's; a returning invocation with different
\* sizes made exactly one; the call carries the new identifier and the volume's size in
\* bytes, and comes after a get_dataset on that identifier that found the dataset.
C9_CloneResize ==
    last.op = "create_volume_from_snapshot"
    => /\ Cardinality(CallsOf("expand_zvol")) <= 1
       /\ ~SizesDiffer => CallsOf("expand_zvol") = {}
       /\ (SizesDiffer /\ last.outcome = Returned) => Cardinality(CallsOf("expand_zvol")) = 1
       /\ \A i \in CallsOf("expand_zvol") :
            /\ calls[i].args = <<TruenasVolumeId(last.arg), Bytes(vol[last.arg].size)>>
            /\ \E j \in 1..(i - 1) :
                 /\ calls[j].call = "get_dataset"
                 /\ calls[j].args = <<TruenasVolumeId(last.arg)>>
                 /\ calls[j].resp.status = 200

\* a clone of a different size returned after one resize call that the appliance accepted
C9_Witness ==
    /\ last.op = "create_volume_from_snapshot"
    /\ last.outcome = Returned
    /\ SizesDiffer
    /\ Cardinality(CallsOf("expand_zvol")) = 1
    /\ calls[Len(calls)].call = "expand_zvol"
    /\ calls[Len(calls)].resp.status = 200

\* ---- C10 (as claimed): every create_volume_from_snapshot that returns has seen
\* get_dataset find the new dataset, whatever the two sizes.
C10_AlwaysPolls ==
    (last.op = "create_volume_from_snapshot" /\ last.outcome = Returned)
    => \E j \in CallsOf("get_dataset") : calls[j].resp.status = 200

\* ---- C10 (amended): when the two sizes differ, create_volume_from_snapshot polls
\* get_dataset after the clone call and resizes and returns only after get_dataset
\* found the dataset, every earlier poll having found none; when the sizes are equal
\* it makes no get_dataset call.
C10_PollsBeforeResize ==
    last.op = "create_volume_from_snapshot"
    => /\ ~SizesDiffer => CallsOf("get_dataset") = {}
       /\ (SizesDiffer /\ (last.outcome = Returned \/ pc = "extend"
                           \/ CallsOf("expand_zvol") /= {}))
          => \E j \in CallsOf("get_dataset") :
               /\ calls[j].resp.status = 200
               /\ calls[1].call = "clone_snapshot"
               /\ \A i \in 2..(j - 1) :
                    calls[i].call = "get_dataset" /\ calls[i].resp.status = 404
               /\ \A i \in CallsOf("expand_zvol") : i > j

\* a clone of a different size returned after a poll that found nothing and one that
\* found the dataset
C10_Witness ==
    /\ last.op = "create_volume_from_snapshot"
    /\ last.outcome = Returned
    /\ Len(calls) = 4
    /\ calls[2].call = "get_dataset" /\ calls[2].resp.status = 404
    /\ calls[3].call = "get_dataset" /\ calls[3].resp.status = 200

\* ---- C11: create_volume_from_snapshot always terminates: an invocation that entered
\* the wait for the cloned dataset leaves it (and ends), also when get_dataset never
\* shows the dataset.
C11_CloneTerminates == (pc = "poll") ~> (pc = "idle")

\* ---- C12: whenever no method is running and every returned model_update has been
\* saved, a volume has a provider_id exactly when the appliance holds its dataset.
C12_ProviderIdIffDataset ==
    Idle => \A v \in VolIds :
                (vol[v].provider_id /= None) <=> (TruenasVolumeId(v) \in DOMAIN datasets)

\* ---- C13 (as claimed): create_volume takes sparse from the provisioning:type extra spec: thin gives
\* sparse=TRUE, thick gives FALSE, a missing spec or no volume type gives FALSE, and any
\* other value raises VolumeDriverException before any client call.
C13_SparseSelection ==
    last.op = "create_volume"
    => IF last.input \in {<<"thin">>, <<"thick">>, NoExtraSpec, NoVolumeType}
       THEN /\ Len(calls) = 1
            /\ calls[1].call = "create_zvol"
            /\ calls[1].args[3] = (last.input = <<"thin">>)
       ELSE /\ last.outcome = Raise("VolumeDriverException")
            /\ calls = <<>>

\* ---- C13 (amended): thin gives sparse=TRUE; thick, a missing or empty spec, or no
\* volume type give sparse=FALSE, each with exactly one create_zvol call; any other
\* (non-empty) value raises VolumeDriverException before any client call.
C13_SparseSelectionFalsy ==
    last.op = "create_volume"
    => IF last.input \in {<<"thin">>, <<"thick">>, NoExtraSpec, EmptyString, NoVolumeType}
       THEN /\ Len(calls) = 1
            /\ calls[1].call = "create_zvol"
            /\ calls[1].args[3] = (last.input = <<"thin">>)
       ELSE /\ last.outcome = Raise("VolumeDriverException")
            /\ calls = <<>>

\* a thin volume was created sparse on the appliance
C13_Witness ==
    /\ last.op = "create_volume"
    /\ last.input = <<"thin">>
    /\ last.outcome = Returned
    /\ calls[1].args[3] = TRUE
    /\ calls[1].args[1] \in DOMAIN datasets

\* ---- C14: create_volume of a volume of s GiB calls create_zvol with size
\* s * 1073741824, and extend_volume to n GiB calls expand_zvol with size n * 1073741824.
C14_SizeInBytes ==
    /\ (last.op = "create_volume" /\ calls /= <<>>)
       => calls[1].args[2] = Bytes(vol[last.arg].size)
    /\ (last.op = "extend_volume" /\ calls /= <<>>)
       => calls[1].args[2] = Bytes(last.input[1])
    /\ Bytes(1) = <<0, 16384>>          \* 1073741824 = 16384 * 65536
    /\ Bytes(2) = <<0, 32768>>          \* 2147483648 = 32768 * 65536

\* a volume of MaxSize GiB was created on the appliance
C14_Witness ==
    /\ last.op = "create_volume"
    /\ last.outcome = Returned
    /\ vol[last.arg].size = MaxSize
    /\ calls[1].args[2] = Bytes(MaxSize)

\* initialize_connection got the basename and a portal with at least one listen endpoint
PortalFound ==
    /\ last.op = "initialize_connection"
    /\ Len(calls) = 2
    /\ calls[1].resp.status = 200
    /\ calls[2].resp.status = 200
    /\ Len(calls[2].resp.body.obj.listen) >= 1

\* "<ip>:<port>" of a listen endpoint
Endpoint(l) == l.ip \o <<":">> \o IntToStr(l.port)

\* ---- C15 (as claimed): for a volume with provider id and a portal with at least one
\* listen endpoint, initialize_connection returns a descriptor with target_iqn =
\* basename ":" volume.id, target_portal = the first endpoint's "ip:port" and
\* target_discovered = FALSE.
C15_DescriptorUsesId ==
    [][ (Entered("initialize_connection") /\ PortalFound')
        => /\ last'.outcome = Returned
           /\ ret'.target = "connection"
           /\ ret'.update.target_iqn = calls'[1].resp.body.obj.basename \o <<":", last'.arg>>
           /\ ret'.update.target_portal = Endpoint(calls'[2].resp.body.obj.listen[1])
           /\ ret'.update.target_discovered = FALSE ]_vars

\* ---- C15 (amended): the same, with target_iqn = basename ":" volume.name_id, which
\* is the id only for a volume that was not migrated.
C15_DescriptorUsesNameId ==
    [][ (Entered("initialize_connection") /\ PortalFound')
        => /\ last'.outcome = Returned
           /\ ret'.target = "connection"
           /\ ret'.update.target_iqn
                = calls'[1].resp.body.obj.basename \o <<":", NameId(last'.arg)>>
           /\ ret'.update.target_portal = Endpoint(calls'[2].resp.body.obj.listen[1])
           /\ ret'.update.target_discovered = FALSE ]_vars

\* a descriptor was returned for a volume whose name_id is not its id, from a portal
\* with two listen endpoints
C15_Witness ==
    /\ PortalFound
    /\ NameId(last.arg) /= last.arg
    /\ Len(calls[2].resp.body.obj.listen) = 2
    /\ ret.target = "connection"
    /\ ret.update.target_portal = <<"10.0.0.6", ":", "3", "2", "6", "1">>

\* ---- C16: extend_volume of a volume without provider id raises VolumeDriverException
\* and makes no client call; of a volume with provider id it makes exactly one
\* expand_zvol call, addressed to that provider id, whatever the new size.
C16_ExtendVolume ==
    last.op = "extend_volume"
    => IF vol[last.arg].provider_id = None
       THEN /\ last.outcome = Raise("VolumeDriverException")
            /\ calls = <<>>
       ELSE /\ Len(calls) = 1
            /\ calls[1].call = "expand_zvol"
            /\ calls[1].args[1] = vol[last.arg].provider_id

\* extend_volume to a size below the volume's made its call, and the appliance took it
C16_Witness ==
    /\ last.op = "extend_volume"
    /\ last.input[1] < vol[last.arg].size
    /\ Len(calls) = 1
    /\ calls[1].resp.status = 200
    /\ last.outcome = Returned

\* the provider_id create_snapshot handed to the caller: the returned model_update's,
\* or the record's once it is saved
HeldSnapshotProviderId ==
    IF ret.target = "snapshot" /\ "provider_id" \in DOMAIN ret.update
    THEN ret.update.provider_id
    ELSE snap[last.arg].provider_id

\* ---- C17: create_snapshot raises VolumeDriverException without a client call when
\* the parent volume has no provider id; otherwise it makes one create_snapshot call
\* with name = snapshot.id and dataset = the parent's provider id, and the provider_id
\* it returns is "<parent provider id>@<snapshot id>".
C17_CreateSnapshot ==
    last.op = "create_snapshot"
    => LET parent == vol[SnapVolume(last.arg)]
       IN  IF parent.provider_id = None
           THEN /\ last.outcome = Raise("VolumeDriverException")
                /\ calls = <<>>
           ELSE /\ Len(calls) = 1
                /\ calls[1].call = "create_snapshot"
                /\ calls[1].args = <<last.arg, parent.provider_id>>
                /\ last.outcome = Returned
                   => HeldSnapshotProviderId = parent.provider_id \o <<"@", last.arg>>

\* create_snapshot returned the composed id, and the appliance holds that snapshot
C17_Witness ==
    /\ last.op = "create_snapshot"
    /\ last.outcome = Returned
    /\ ret.target = "snapshot"
    /\ ret.update.provider_id = <<"tank", "/", "cinder", "/", "n1", "@", "s1">>
    /\ ret.update.provider_id \in rsnapshots

\* ---- C18: initialize_connection makes only the two read calls (get_iscsi_global,
\* get_iscsi_portal) and leaves the appliance as it was; terminate_connection makes no
\* client call, leaves the appliance as it was and returns.
C18_ConnectionsReadOnly ==
    [][ /\ Entered("initialize_connection")
           => /\ UNCHANGED remote
              /\ \A i \in 1..Len(calls') :
                   calls'[i].call = (IF i = 1 THEN "get_iscsi_global" ELSE "get_iscsi_portal")
              /\ Len(calls') <= 2
        /\ Entered("terminate_connection")
           => /\ UNCHANGED remote
              /\ calls' = <<>>
              /\ last'.outcome = Returned ]_vars

\* initialize_connection returned a descriptor for a volume that has no target on the
\* appliance, and made none
C18_Witness ==
    /\ last.op = "initialize_connection"
    /\ last.outcome = Returned
    /\ Len(calls) = 2
    /\ targets = EmptyDict
    /\ extents = EmptyDict

\* the answer carries `pat` in its top-level message or in the message of its first
\* 'null' entry
Says(resp, pat) ==
    \/ SaysInMessage(resp, pat)
    \/ /\ resp.body.json
       /\ "null" \in DOMAIN resp.body.obj
       /\ Len(resp.body.obj.null) > 0
       /\ "message" \in DOMAIN resp.body.obj.null[1]
       /\ Contains(pat, resp.body.obj.null[1].message)

\* ---- C19: error patterns are classified per kind of call: SnapshotIsBusy is raised
\* by delete_snapshot only; a 'dependent clones' message answering the dataset delete
\* of delete_volume or the target or extent delete of remove_export ends the method
\* with that HTTPError; the 'does not exist' pattern does not make delete_snapshot
\* return.
C19_PatternsPerOperation ==
    /\ last.outcome.exc = "SnapshotIsBusy" => last.op = "delete_snapshot"
    /\ \A i \in 1..Len(calls) :
         (/\ calls[i].call \in {"delete_dataset", "delete_iscsi_target", "delete_iscsi_extent"}
          /\ ClientRaises(calls[i].resp)
          /\ Says(calls[i].resp, PatDependentClones))
         => last.outcome = RaiseHTTPError(calls[i].resp)
    /\ (/\ last.op = "delete_snapshot"
        /\ calls /= <<>>
        /\ ClientRaises(calls[1].resp)
        /\ Says(calls[1].resp, PatDoesNotExist)
        /\ ~Says(calls[1].resp, PatNotFound))
       => last.outcome.kind = "raise"

\* the dataset delete of delete_volume was answered 'dependent clones' for a dataset
\* that has a snapshot, and delete_volume raised that HTTPError
C19_Witness ==
    /\ last.op = "delete_volume"
    /\ Len(calls) = 1
    /\ calls[1].resp = Response(422, NullBody(<<[message |-> MsgDependentClones]>>))
    /\ last.outcome = RaiseHTTPError(calls[1].resp)
    /\ calls[1].args[1] \in DOMAIN datasets
    /\ rsnapshots /= {}

\* ---- C20: create_export does no rollback: when the extent create or the association
\* fails, create_export makes no delete call, ends with that HTTPError, and the target
\* (and the extent, when it was created) it made is still on the appliance.
C20_NoRollback ==
    (last.op = "create_export" /\ last.outcome.kind = "raise" /\ Len(calls) >= 2)
    => /\ \A i \in 1..Len(calls) : calls[i].call \notin DeleteCalls
       /\ last.outcome = RaiseHTTPError(calls[Len(calls)].resp)
       /\ calls[1].resp.body.obj.id \in DOMAIN targets
       /\ targets[calls[1].resp.body.obj.id] = NameId(last.arg)
       /\ Len(calls) = 3
          => /\ calls[2].resp.body.obj.id \in DOMAIN extents
             /\ <<calls[1].resp.body.obj.id, calls[2].resp.body.obj.id>> \notin targetextents

\* create_export failed at the association and left its target and its extent behind
C20_Witness ==
    /\ last.op = "create_export"
    /\ last.outcome.kind = "raise"
    /\ Len(calls) = 3
    /\ calls[1].resp.body.obj.id \in DOMAIN targets
    /\ calls[2].resp.body.obj.id \in DOMAIN extents

\* every call of the method just run was for something the appliance did not hold and
\* was answered with the appliance's not-found answer of its kind
AnsweredGone ==
    /\ calls' /= <<>>
    /\ \A i \in 1..Len(calls') :
         LET c == calls'[i]
         IN  \/ c.call = "delete_dataset" /\ c.args[1] \notin DOMAIN datasets
                /\ c.resp = NoSuchObjectResponse
             \/ c.call = "delete_snapshot" /\ c.args[1] \notin rsnapshots
                /\ c.resp = NoSuchSnapshotResponse
             \/ c.call = "delete_iscsi_target" /\ StrToInt(c.args[1]) \notin DOMAIN targets
                /\ c.resp = NoSuchObjectResponse
             \/ c.call = "delete_iscsi_extent" /\ StrToInt(c.args[1]) \notin DOMAIN extents
                /\ c.resp = NoSuchObjectResponse

\* ---- C21: teardown is safe to retry. remove_export of a volume that holds both
\* export ids deletes the target, by the id held, and then the extent, by the id held;
\* remove_export, delete_volume and delete_snapshot called for resources that are
\* already gone from the appliance return and leave the appliance as it was.
C21_TeardownRetry ==
    [][ /\ (Entered("remove_export") /\ calls' /= <<>>)
           => /\ calls'[1].call = "delete_iscsi_target"
              /\ calls'[1].args = <<vol[last'.arg].admin_metadata.truenas_iscsi_target_id>>
              /\ Len(calls') <= 2
              /\ Len(calls') = 2
                 => /\ calls'[2].call = "delete_iscsi_extent"
                    /\ calls'[2].args
                         = <<vol[last'.arg].admin_metadata.truenas_iscsi_extent_id>>
              /\ (calls'[1].resp.status = 200 \/ NotFoundEquivalent(calls'[1]))
                 => Len(calls') = 2
        /\ (Entered("remove_export") /\ AnsweredGone)
           => (Len(calls') = 2 /\ last'.outcome = Returned /\ UNCHANGED remote)
        /\ ((Entered("delete_volume") \/ Entered("delete_snapshot")) /\ AnsweredGone)
           => (last'.outcome = Returned /\ UNCHANGED remote) ]_vars

\* remove_export was called again for an export whose target and extent the appliance
\* had assigned and no longer holds, and returned after both deletes
C21_Witness ==
    /\ last.op = "remove_export"
    /\ last.outcome = Returned
    /\ Len(calls) = 2
    /\ calls[1].call = "delete_iscsi_target" /\ calls[1].resp = NoSuchObjectResponse
    /\ calls[2].call = "delete_iscsi_extent" /\ calls[2].resp = NoSuchObjectResponse
    /\ StrToInt(calls[1].args[1]) <= target_seq
    /\ StrToInt(calls[1].args[1]) \notin DOMAIN targets
    /\ StrToInt(calls[2].args[1]) <= extent_seq
    /\ StrToInt(calls[2].args[1]) \notin DOMAIN extents
    /\ targetextents = {}

\* ---- C22: create_volume_from_snapshot of a snapshot without provider id raises the
\* precondition error (VolumeDriverException) and makes no clone call; every clone call
\* carries a snapshot provider id as its source and "<truenas_dataset_path>/<name_id>"
\* as its destination.
C22_SnapshotProviderIdRequired ==
    last.op = "create_volume_from_snapshot"
    => /\ snap[last.input[1]].provider_id = None
          => (last.outcome = Raise("VolumeDriverException") /\ calls = <<>>)
       /\ \A i \in CallsOf("clone_snapshot") :
            /\ calls[i].args[1] /= None
            /\ calls[i].args[2] = TruenasDatasetPath \o <<"/", NameId(last.arg)>>

\* the metadata keys a method writes itself
WrittenKeys(op) ==
    IF op = "create_volume" THEN {"truenas_volume_id"}
    ELSE IF op = "create_snapshot" THEN {"truenas_snapshot_id"}
    ELSE IF op = "create_volume_from_snapshot"
    THEN {"truenas_volume_id", "truenas_volume_from_snapshot_id"}
    ELSE IF op = "create_export" THEN {"truenas_iscsi_target_id", "truenas_iscsi_extent_id"}
    ELSE {}

\* ---- C23: the admin_metadata returned by create_volume, create_snapshot,
\* create_volume_from_snapshot and create_export is a merge: it holds the keys the
\* method writes, and every key of the record's metadata, with the record's value
\* unless the method writes that key.
C23_MetadataMerged ==
    [][ (ret = NoRet /\ ret'.target \in {"volume", "snapshot"})
        => LET old == IF ret'.target = "volume" THEN vol[ret'.id].admin_metadata
                      ELSE snap[ret'.id].admin_metadata
               new == ret'.update.admin_metadata
           IN  /\ WrittenKeys(last'.op) /= {}
               /\ WrittenKeys(last'.op) \subseteq DOMAIN new
               /\ \A k \in DOMAIN old :
                    /\ k \in DOMAIN new
                    /\ k \notin WrittenKeys(last'.op) => new[k] = old[k] ]_vars

\* create_export, after create_volume, returned metadata that still records the
\* volume's dataset id, together with both export ids
C23_Witness ==
    /\ last.op = "create_export"
    /\ last.outcome = Returned
    /\ ret.target = "volume"
    /\ DOMAIN ret.update.admin_metadata
         = {"truenas_volume_id", "truenas_iscsi_target_id", "truenas_iscsi_extent_id"}
    /\ ret.update.admin_metadata.truenas_volume_id = vol[last.arg].provider_id

\* the methods that create a dataset or a snapshot, each by one client call made first
CreateOps == {"create_volume", "create_snapshot", "create_volume_from_snapshot"}

\* ---- C24: when the create_zvol call of create_volume, the create_snapshot call of
\* create_snapshot or the clone_snapshot call of create_volume_from_snapshot fails,
\* the method ends with that HTTPError, returns no model_update, and leaves the Volume
\* and Snapshot records as they were.
C24_NoDeltaOnFailedCreate ==
    [][ (/\ Idle
         /\ last'.op \in CreateOps
         /\ calls' /= <<>>
         /\ ClientRaises(calls'[1].resp))
        => /\ calls'[1].call \in {"create_zvol", "create_snapshot", "clone_snapshot"}
           /\ Len(calls') = 1
           /\ last'.outcome = RaiseHTTPError(calls'[1].resp)
           /\ ret' = NoRet
           /\ UNCHANGED records ]_vars

\* the clone of an existing snapshot was refused, and the volume has no provider id
C24_Witness ==
    /\ last.op = "create_volume_from_snapshot"
    /\ Len(calls) = 1
    /\ calls[1].args[1] \in rsnapshots
    /\ last.outcome = RaiseHTTPError(calls[1].resp)
    /\ ret = NoRet
    /\ vol[last.arg].provider_id = None

\* the targets the appliance associates with an extent on the dataset `provider_id`
TargetsOf(provider_id) ==
    {l[1] : l \in {x \in targetextents :
                      /\ x[1] \in DOMAIN targets
                      /\ x[2] \in DOMAIN extents
                      /\ extents[x[2]].disk = <<"zvol", "/">> \o provider_id}}

\* ---- C25: the target_iqn initialize_connection returns for a volume is the basename,
\* a colon and the name of the target that create_export made for that volume's
\* dataset; create_export names the target by the volume's name_id.
C25_IqnAddressesTarget ==
    /\ (last.op = "initialize_connection" /\ ret.target = "connection")
       => \A t \in TargetsOf(vol[last.arg].provider_id) :
            ret.update.target_iqn = calls[1].resp.body.obj.basename \o <<":", targets[t]>>
    /\ (last.op = "create_export" /\ calls /= <<>>)
       => calls[1].args[1] = NameId(last.arg)

\* a descriptor was returned for an exported volume whose name_id is not its id
C25_Witness ==
    /\ last.op = "initialize_connection"
    /\ ret.target = "connection"
    /\ NameId(last.arg) /= last.arg
    /\ TargetsOf(vol[last.arg].provider_id) /= {}

====
